---- MODULE Spec2Model ----
(***************************************************************************)
(* A model of as_client's resource framework (src/as_client/model.py):     *)
(* the transparently paginated _ResourceCollection and the property        *)
(* descriptors of _Resource, together with the parts of Client             *)
(* (src/as_client/client.py) they call.                                    *)
(*                                                                         *)
(* Python values are encoded as follows.  An optional integer (an int or   *)
(* None) is a sequence: None is <<>> and the int n is <<n>>.  A list is a  *)
(* sequence; Python's 0-based index i is position i + 1.  A slot of the    *)
(* collection's list is a record: an entity or the _UNKNOWN placeholder.   *)
(***************************************************************************)
EXTENDS Integers, Sequences, FiniteSets, TLC

VARIABLES
    total,          \* server: size of the remote collection (totalcount)
    faulty,         \* server: whether it may answer a request with an error status
    server,         \* server: how well its pages agree with the requests
    defaultLimit,   \* server: the limit it applies when the request names none
    page_size,      \* _ResourceCollection._page_size
    items,          \* _ResourceCollection._items
    length,         \* _ResourceCollection._length
    call,           \* the last call made on the collection and how it ended
    returned,       \* the indices for which __getitem__ has returned an entity
    client,         \* a resource's _client attribute
    props,          \* a resource's property data, by property
    ecall,          \* the last call made on the resource and how it ended
    api,            \* the last listing call made on the Client and what it gave
    install         \* the last install_model call made on the Client and what it sent

collVars == <<total, faulty, server, defaultLimit, page_size, items, length, call, returned>>

resVars == <<client, props, ecall>>

apiVars == <<api, install>>

vars == <<total, faulty, server, defaultLimit, page_size, items, length, call, returned,
          client, props, ecall, api, install>>

\* Largest remote collection and largest page size explored.
MaxTotal == 4
MaxPage == 3

----------------------------------------------------------------------------
(* Python values *)

NoneInt == <<>>
Some(n) == <<n>>
Val(o) == o[1]

\* The items list is None until the first page is loaded.
NoItems == [allocated |-> FALSE, list |-> <<>>]
ItemsList(l) == [allocated |-> TRUE, list |-> l]

UNKNOWN_ITEM == [kind |-> "_UNKNOWN", id |-> 0]
Entity(id) == [kind |-> "entity", id |-> id]

\* seq[index]: the position (from 1) Python reads, 0 when it raises IndexError.
\* A negative index counts from the end of the list.
PyIndex(seq, index) ==
    IF 0 <= index /\ index < Len(seq) THEN index + 1
    ELSE IF index < 0 /\ 0 - index <= Len(seq) THEN Len(seq) + index + 1
    ELSE 0

\* A slice bound as Python normalises it against a list of length n.
SliceBound(x, n) ==
    IF x < 0 THEN (IF x + n < 0 THEN 0 ELSE x + n)
    ELSE (IF x > n THEN n ELSE x)

\* seq[start:stop] = new
SliceAssign(seq, start, stop, new) ==
    LET a == SliceBound(start, Len(seq))
        b0 == SliceBound(stop, Len(seq))
        b == IF b0 < a THEN a ELSE b0
    IN  SubSeq(seq, 1, a) \o new \o SubSeq(seq, b + 1, Len(seq))

\* [_UNKNOWN] * n
AllocatePadded(n) == [k \in 1..(n + 1) |-> UNKNOWN_ITEM]
Allocate(n) == [k \in 1..n |-> UNKNOWN_ITEM]

----------------------------------------------------------------------------
(* Resource properties: _Property, _IdProperty, _EmbeddedProperty,         *)
(* _PropertyData and _Resource.  Property values and JSON values are       *)
(* strings; a JSON object is a function from its keys.                     *)

None == "None"
UNKNOWN == "_UNKNOWN"
\* The built-in function id, which _Property.__get__ names where it means id_.
BuiltinId == "<built-in function id>"
TheClient == "client"
Self == "self"

\* The properties of the resource type: id, name and ports as class Model
\* declares them, and value, a property declared with writable=True.
Fields == {"id", "name", "value", "ports"}

Descriptor(f) ==
    CASE f = "id" -> [kind |-> "_IdProperty", json_name |-> "id",
                      default |-> None, writable |-> FALSE]
      [] f = "name" -> [kind |-> "_Property", json_name |-> "name",
                        default |-> None, writable |-> FALSE]
      [] f = "value" -> [kind |-> "_Property", json_name |-> "value",
                         default |-> None, writable |-> TRUE]
      [] f = "ports" -> [kind |-> "_EmbeddedProperty", json_name |-> "ports",
                         default |-> "[]", writable |-> FALSE]

\* from_json and to_json: the identity lambdas, except for ports, whose JSON
\* array of port documents is turned into a list of Port objects and back.
FromJson(f, v) ==
    IF f = "ports"
    THEN (CASE v = "[{p}]" -> "[Port(p)]" [] v = "[{q}]" -> "[Port(q)]" [] OTHER -> "[]")
    ELSE v

ToJson(f, v) ==
    IF f = "ports"
    THEN (CASE v = "[Port(p)]" -> "[{p}]" [] v = "[Port(q)]" -> "[{q}]" [] OTHER -> "[]")
    ELSE v

\* _PropertyData.__init__
NewData == [local |-> UNKNOWN, remote |-> UNKNOWN]
NewProps == [f \in Fields |-> NewData]

\* _PropertyData.local_value (getter)
LocalValue(f, data) ==
    IF data.local # UNKNOWN THEN data.local
    ELSE IF data.remote # UNKNOWN THEN data.remote
    ELSE Descriptor(f).default

\* _PropertyData.needs_fetch
NeedsFetch(data) == data.remote = UNKNOWN

\* The JSON documents of a resource: top-level keys and, when present, the
\* "_embedded" object.
NoEmbedded == [present |-> FALSE, doc |-> <<>>]
Embedded(doc) == [present |-> TRUE, doc |-> doc]
EmptyObject == [k \in {} |-> None]
Objects(keys, values) == UNION {[K -> values] : K \in SUBSET keys}

ResourceDocuments ==
    {[top |-> t, embedded |-> e] :
        t \in {t1 @@ t2 @@ t3 : t1 \in Objects({"id", "value"}, {"a", "b"}),
                                t2 \in Objects({"name"}, {"a"}),
                                t3 \in Objects({"ports"}, {"[{p}]"})},
        e \in {NoEmbedded} \cup {Embedded(d) : d \in Objects({"ports"}, {"[{p}]", "[{q}]"})}}

\* json.get('_embedded', {})
EmbeddedOf(json) == IF json.embedded.present THEN json.embedded.doc ELSE EmptyObject

\* _Property._update and _EmbeddedProperty._update: the property's data after
\* the update.
PropertyUpdateLocal(f, data, json) ==
    LET d == Descriptor(f)
        src == IF d.kind = "_EmbeddedProperty" THEN EmbeddedOf(json) ELSE json.top
    IN  IF d.json_name \in DOMAIN src
        THEN [data EXCEPT !.local = FromJson(f, src[d.json_name])]
        ELSE data
PropertyUpdateResets(f, data, json) ==
    LET d == Descriptor(f)
        src == IF d.kind = "_EmbeddedProperty" THEN EmbeddedOf(json) ELSE json.top
    IN  IF d.json_name \in DOMAIN src
        THEN [data EXCEPT !.remote = FromJson(f, src[d.json_name])]
        ELSE [data EXCEPT !.remote = UNKNOWN]
PropertyUpdate(f, data, json) ==
    LET d == Descriptor(f)
        src == IF d.kind = "_EmbeddedProperty" THEN EmbeddedOf(json) ELSE json.top
    IN  IF d.json_name \in DOMAIN src
        THEN [data EXCEPT !.remote = FromJson(f, src[d.json_name])]
        ELSE data

\* _Property.__set__: how it ends and the property's data afterwards.
PropertySetUnchecked(f, data, value) ==
    [outcome |-> "return", data |-> [data EXCEPT !.local = value]]
PropertySet(f, data, value) ==
    IF ~Descriptor(f).writable
    THEN [outcome |-> "AttributeError", data |-> data]
    ELSE [outcome |-> "return", data |-> [data EXCEPT !.local = value]]

\* _Resource._serialise: whether the loop skips property f.
SerialiseSkipsNothing(f, include_id) == FALSE
SerialiseSkips(f, include_id) ==
    ~include_id /\ Descriptor(f).kind = "_IdProperty"

\* _Resource._serialise with _Property._serialise: the resulting dict.
Serialised(ps, include_id) ==
    LET written == {f \in Fields : /\ ~SerialiseSkips(f, include_id)
                                   /\ LocalValue(f, ps[f]) # UNKNOWN}
        keyOf(f) == Descriptor(f).json_name
    IN  [k \in {keyOf(f) : f \in written} |->
            LET f == CHOOSE g \in written : keyOf(g) = k
            IN  ToJson(f, LocalValue(f, ps[f]))]

\* How a call on the resource is recorded.  prevSet is <<field, value>> when
\* the call before it was a __set__ that returned, pre is what held before
\* the call.
NoPre == [needs |-> FALSE, attached |-> FALSE, idKnown |-> FALSE, cached |-> FALSE]
NoBody == [absent |-> TRUE]
NoECall == [op |-> "none", field |-> "", value |-> "", include_id |-> FALSE,
            outcome |-> "none", result |-> "", wire |-> EmptyObject,
            fetches |-> 0, prevSet |-> <<>>, pre |-> NoPre,
            requests |-> <<>>, http |-> NoneInt, body |-> NoBody,
            status_code |-> NoneInt]

PrevSet ==
    IF ecall.op = "set" /\ ecall.outcome = "return"
    THEN <<ecall.field, ecall.value>> ELSE <<>>

Pre(f) ==
    [needs |-> NeedsFetch(props[f]),
     attached |-> client # None,
     idKnown |-> LocalValue("id", props["id"]) # None,
     cached |-> \E g \in Fields \ {"id"} : ~NeedsFetch(props[g])]

\* _Property.__get__ and _IdProperty.__get__ on an instance.  The test that
\* guards the fetch reads the built-in id, not id_.  The fetch is the call
\* client._fetch_resource(owner, id_, instance): three positional arguments
\* to _fetch_resource(self, resource, type_=None), so it raises TypeError
\* before any request is made.
PropertyGetNoIdOverride(f, ps, cl) ==
    IF NeedsFetch(ps[f]) /\ None \notin {BuiltinId, cl}
    THEN [outcome |-> "TypeError", result |-> "", fetches |-> 0]
    ELSE [outcome |-> "return", result |-> LocalValue(f, ps[f]), fetches |-> 0]
PropertyGet(f, ps, cl) ==
    IF Descriptor(f).kind = "_IdProperty"
    THEN [outcome |-> "return", result |-> LocalValue(f, ps[f]), fetches |-> 0]
    ELSE IF NeedsFetch(ps[f]) /\ None \notin {BuiltinId, cl}
    THEN [outcome |-> "TypeError", result |-> "", fetches |-> 0]
    ELSE [outcome |-> "return", result |-> LocalValue(f, ps[f]), fetches |-> 0]

\* How _Property._serialise reads the value it writes: from the property's
\* data, self.get_data(instance).local_value, not through the descriptor.
SerialiseReadDescriptor(f, ps, cl) == PropertyGet(f, ps, cl)
SerialiseRead(f, ps, cl) ==
    [outcome |-> "return", result |-> LocalValue(f, ps[f]), fetches |-> 0]

\* Reading resource.<f>
GetProperty(f) ==
    LET r == PropertyGet(f, props, client)
    IN  /\ ecall' = [NoECall EXCEPT !.op = "get", !.field = f,
                        !.outcome = r.outcome, !.result = r.result,
                        !.fetches = r.fetches, !.prevSet = PrevSet, !.pre = Pre(f)]
        /\ UNCHANGED <<client, props>>
        /\ UNCHANGED <<collVars, apiVars>>

\* resource.<f> = value
SetProperty(f, value) ==
    LET r == PropertySet(f, props[f], value)
    IN  /\ props' = [props EXCEPT ![f] = r.data]
        /\ ecall' = [NoECall EXCEPT !.op = "set", !.field = f, !.value = value,
                        !.outcome = r.outcome, !.prevSet = PrevSet, !.pre = Pre(f)]
        /\ UNCHANGED client
        /\ UNCHANGED <<collVars, apiVars>>

\* _Resource._update(client, json), which returns self
Update(json) ==
    /\ client' = TheClient
    /\ props' = [f \in Fields |-> PropertyUpdate(f, props[f], json)]
    /\ ecall' = [NoECall EXCEPT !.op = "update", !.outcome = "return",
                    !.result = Self, !.prevSet = PrevSet, !.body = json]
    /\ UNCHANGED <<collVars, apiVars>>

\* Client._check_response
CheckResponseAnyError(status) == IF 400 <= status THEN "RequestError" ELSE "json"
CheckResponse(status) ==
    IF 400 <= status /\ status < 500 THEN "RequestError"
    ELSE IF 500 <= status THEN "ServerError"
    ELSE "json"

\* exceptions.Error.__init__(response, **response.json()): status_code is the
\* body's statuscode member, None when the body has none.
ErrorOfResponse(resp) ==
    [type |-> CheckResponse(resp.status), status_code |-> Some(resp.status)]
ErrorOf(resp) ==
    [type |-> CheckResponse(resp.status), status_code |-> resp.json.statuscode]

\* The statuses of the error answers of a faulty server, and the JSON bodies
\* of an error answer: one that carries the status as its statuscode member
\* and one that has no such member.
ErrorStatuses == {400, 499, 500}
ErrorBody(status) == [statuscode |-> Some(status)]
ErrorBodies(status) == {ErrorBody(status), [statuscode |-> NoneInt]}

\* The server's answers to GET <type path>/<id>: the resource's document when
\* a resource has that id and 404 otherwise, or a server error.
ExistingIds == {"a"}
ResourceResponses(id) ==
    (IF id \in ExistingIds
     THEN {[status |-> 200, json |-> j] :
            j \in {d \in ResourceDocuments : "id" \in DOMAIN d.top /\ d.top["id"] = id}}
     ELSE {[status |-> 404, json |-> b] : b \in ErrorBodies(404)})
    \cup {[status |-> 500, json |-> b] : b \in ErrorBodies(500)}

\* Client._fetch_resource(resource) with a resource instance: the document of
\* resource.id is requested and applied to the instance, which is returned.
FetchResource ==
    \E resp \in ResourceResponses(LocalValue("id", props["id"])) :
        LET checked == CheckResponse(resp.status)
        IN  /\ IF checked = "json"
               THEN /\ client' = TheClient
                    /\ props' = [f \in Fields |-> PropertyUpdate(f, props[f], resp.json)]
               ELSE UNCHANGED <<client, props>>
            /\ ecall' = [NoECall EXCEPT !.op = "fetch",
                            !.outcome = IF checked = "json" THEN "return"
                                        ELSE ErrorOf(resp).type,
                            !.result = IF checked = "json" THEN Self ELSE "",
                            !.fetches = 1, !.prevSet = PrevSet,
                            !.http = Some(resp.status),
                            !.body = resp.json,
                            !.status_code = IF checked = "json" THEN NoneInt
                                            ELSE ErrorOf(resp).status_code]
            /\ UNCHANGED <<collVars, apiVars>>

\* Client._upload_resource(resource) with method None: PUT when resource.id is
\* truthy, POST otherwise.
UploadMethodAlwaysPost(id) == "POST"
UploadMethod(id) == IF id # None THEN "PUT" ELSE "POST"

\* The document the server stores for an uploaded payload under an id: the
\* payload's name and value, and the id.
StoredDocument(json, id) ==
    [top |-> [k \in {"id", "name", "value"} |-> IF k = "id" THEN id ELSE json[k]],
     embedded |-> NoEmbedded]

\* The server's answers to an upload: the stored document, which carries the
\* id it was created under (POST) or addressed by (PUT), 404 for a PUT to an
\* id it does not know, or a server error.
UploadResponses(method, id, json) ==
    (IF method = "PUT" /\ id \notin ExistingIds
     THEN {[status |-> 404, json |-> b] : b \in ErrorBodies(404)}
     ELSE {[status |-> 200, json |-> StoredDocument(json, i)] :
            i \in (IF method = "PUT" THEN {id} ELSE ExistingIds)})
    \cup {[status |-> 500, json |-> b] : b \in ErrorBodies(500)}

\* Client._upload_resource(resource), as upload_workflow calls it: one request,
\* whose answer is applied to the resource, which is returned.
UploadResource ==
    LET id == LocalValue("id", props["id"])
        method == UploadMethod(id)
        putting == method = "PUT"
        request == [method |-> method,
                    path |-> IF putting THEN <<id>> ELSE <<>>,
                    json |-> Serialised(props, putting)]
    IN  \E resp \in UploadResponses(method, id, request.json) :
            LET checked == CheckResponse(resp.status)
            IN  /\ IF checked = "json"
                   THEN /\ client' = TheClient
                        /\ props' = [f \in Fields |->
                                        PropertyUpdate(f, props[f], resp.json)]
                   ELSE UNCHANGED <<client, props>>
                /\ ecall' = [NoECall EXCEPT !.op = "upload", !.field = "id",
                                !.value = id,
                                !.outcome = IF checked = "json" THEN "return"
                                            ELSE ErrorOf(resp).type,
                                !.result = IF checked = "json" THEN Self ELSE "",
                                !.requests = <<request>>,
                                !.prevSet = PrevSet,
                                !.http = Some(resp.status),
                                !.body = resp.json,
                                !.status_code = IF checked = "json" THEN NoneInt
                                                ELSE ErrorOf(resp).status_code]
                /\ UNCHANGED <<collVars, apiVars>>

\* The server's answers to GET workflows/<id>/results: the results of running
\* the workflow when it has one of that id and 404 otherwise, or a server
\* error.
ResultsResponses(id) ==
    (IF id \in ExistingIds
     THEN {[status |-> 200, json |-> [workflowid |-> id]]}
     ELSE {[status |-> 404, json |-> ErrorBody(404)]})
    \cup {[status |-> 500, json |-> ErrorBody(500)]}

\* No request was made.
NoResponse == [status |-> 0, json |-> NoBody]

\* Client.run_workflow(workflow) with a Workflow instance.  With a known id
\* the results are requested; with no id, or when that request is answered
\* 404, the workflow is to be created by self.post_workflow(workflow), a
\* method Client does not have, so AttributeError is raised.
RunWorkflow ==
    LET id == LocalValue("id", props["id"])
        get == [method |-> "GET", path |-> <<id, "results">>, json |-> EmptyObject]
    IN  \E resp \in (IF id # None THEN ResultsResponses(id) ELSE {NoResponse}) :
            LET creating == id = None \/ resp.status = 404
                checked == CheckResponse(resp.status)
            IN  /\ ecall' = [NoECall EXCEPT !.op = "run", !.field = "id", !.value = id,
                                !.requests = IF id # None THEN <<get>> ELSE <<>>,
                                !.http = IF id # None THEN Some(resp.status) ELSE NoneInt,
                                !.outcome = IF creating THEN "AttributeError"
                                            ELSE IF checked = "json" THEN "return"
                                            ELSE ErrorOf(resp).type,
                                !.result = IF ~creating /\ checked = "json"
                                           THEN "WorkflowResults" ELSE "",
                                !.body = IF id # None THEN resp.json ELSE NoBody,
                                !.status_code = IF ~creating /\ checked # "json"
                                                THEN ErrorOf(resp).status_code
                                                ELSE NoneInt,
                                !.prevSet = PrevSet]
                /\ UNCHANGED <<client, props>>
                /\ UNCHANGED <<collVars, apiVars>>

\* _Resource._serialise(include_id)
Serialise(include_id) ==
    /\ LET reads == {SerialiseRead(f, props, client) :
                        f \in {g \in Fields : ~SerialiseSkips(g, include_id)}}
           failed == {r \in reads : r.outcome # "return"}
       IN  ecall' = [NoECall EXCEPT !.op = "serialise", !.include_id = include_id,
                        !.outcome = IF failed = {} THEN "return"
                                    ELSE (CHOOSE r \in failed : TRUE).outcome,
                        !.wire = IF failed = {} THEN Serialised(props, include_id)
                                 ELSE EmptyObject,
                        !.prevSet = PrevSet]
    /\ UNCHANGED <<client, props>>
    /\ UNCHANGED <<collVars, apiVars>>

\* File system paths: whether the path is absolute and its components.
\* os.path.join(root, file_) appends components; os.path.relpath(source_path,
\* path) of a file found by os.walk(path) is what follows path's components.
Path(abs, parts) == [abs |-> abs, parts |-> parts]
Join(root, rel) == [root EXCEPT !.parts = root.parts \o rel]
Relpath(source, start) ==
    SubSeq(source.parts, Len(start.parts) + 1, Len(source.parts))

\* tail.startswith('.') for the path components used here.
DotNames == {".", ".env", ".git", ".cache"}
StartsWithDot(tail) == tail \in DotNames

\* util.path_is_hidden(path): the posix definition walks the path from its
\* last component to its first with os.path.split; any other os.name gets
\* the definition that answers False.
RECURSIVE PosixPathIsHidden(_)
PosixPathIsHidden(path) ==
    IF path.parts = <<>> THEN FALSE
    ELSE IF StartsWithDot(path.parts[Len(path.parts)]) THEN TRUE
    ELSE PosixPathIsHidden([path EXCEPT !.parts = SubSeq(path.parts, 1, Len(path.parts) - 1)])

PathIsHidden(os_name, path) ==
    IF os_name = "posix" THEN PosixPathIsHidden(path) ELSE FALSE

\* The members of the tar file install_model writes for a directory: a file
\* is added under its path relative to the directory unless it is skipped as
\* hidden or as the manifest.json a supplied manifest replaces; the supplied
\* manifest is added last as manifest.json.
ManifestName == <<"manifest.json">>
Archive(os_name, path, files, manifest, include_hidden) ==
    {[arcname |-> Relpath(Join(path, rel), path), content |-> <<"file", rel>>] :
        rel \in {r \in files :
                    /\ ~(~include_hidden /\ PathIsHidden(os_name, Join(path, r)))
                    /\ (manifest = None
                            \/ Relpath(Join(path, r), path) # ManifestName)}}
    \cup (IF manifest # None
          THEN {[arcname |-> ManifestName, content |-> <<"json", manifest>>]}
          ELSE {})

\* How an install_model call is recorded: its arguments and what the path
\* refers to, the upload it sent (if any) and how it ended.
NoInstall == [kind |-> "none", os_name |-> "", path |-> Path(FALSE, <<>>),
              files |-> {}, manifest |-> None, include_hidden |-> FALSE,
              name |-> "", mime_type |-> "", archive |-> {},
              http |-> NoneInt, outcome |-> "none"]

\* Client.install_model(path, manifest, include_hidden) where path refers to
\* a directory, a zip file, a tar file or something else, and the server
\* answers the upload with `status`.  os.name and the files a directory
\* holds are the process's environment: install.os_name and install.files.
InstallModel(kind, path, manifest, include_hidden, status) ==
    LET os_name == install.os_name
        files == install.files
        made == [NoInstall EXCEPT !.kind = kind, !.os_name = os_name, !.path = path,
                    !.files = files, !.manifest = manifest,
                    !.include_hidden = include_hidden]
        checked == CheckResponse(status)
        ended == IF checked = "json" THEN "ModelInstallationResult" ELSE checked
    IN  /\ install' =
            IF kind = "dir"
            THEN [made EXCEPT !.name = "model.tar.gz", !.mime_type = "application/gzip",
                    !.archive = Archive(os_name, path, files, manifest, include_hidden),
                    !.http = Some(status), !.outcome = ended]
            ELSE IF kind = "zip"
            THEN [made EXCEPT !.name = "model.zip", !.mime_type = "application/zip",
                    !.http = Some(status), !.outcome = ended]
            ELSE IF kind = "tar"
            THEN [made EXCEPT !.name = "model.tar.gz", !.mime_type = "application/gzip",
                    !.http = Some(status), !.outcome = ended]
            ELSE [made EXCEPT !.outcome = "ValueError"]
        /\ UNCHANGED api
        /\ UNCHANGED <<collVars, resVars>>

\* How a listing call on the Client is recorded: the method, its arguments,
\* what it returned or raised, the query of the request it sent (if any) and
\* the list it was answered with (if any).
NoApiCall == [method |-> "none", skip |-> NoneInt, limit |-> NoneInt,
              page_size |-> NoneInt, group_ids |-> None, outcome |-> "none",
              query |-> EmptyObject, json |-> EmptyObject, list |-> <<>>]

\* The values a caller assigns to a property.
SetValues == {None, "a", "b"}

----------------------------------------------------------------------------
(* The remote collection: a server that answers every range request       *)
(* consistently.  The page for (skip, limit) holds the documents of the    *)
(* full listing whose index j satisfies skip <= j < skip + limit; skip is  *)
(* echoed, count is the number of documents returned and totalcount is     *)
(* constant.                                                               *)

\* The id of document j (from 0) of the full, non-paginated listing.
ListingId(j) == total - j

\* The "_embedded" object of a page: the array of documents under the key of
\* the resource type's collection.
CollectionKey == "collection"
Collection(docs) == [k \in {CollectionKey} |-> docs]

ServerPage(skip, limit) ==
    LET lim == IF limit = NoneInt THEN defaultLimit ELSE Val(limit)
        lo == IF skip < 0 THEN 0 ELSE skip
        hi == IF skip + lim > total THEN total ELSE skip + lim
        n == IF hi > lo THEN hi - lo ELSE 0
    IN  [skip |-> Some(skip), limit |-> Some(lim), count |-> Some(n),
         totalcount |-> Some(total),
         embedded |-> Collection([k \in 1..n |-> [id |-> ListingId(lo + k - 1)]])]

\* The pages of a server whose answers need not agree with the request or
\* with themselves: the page asked for; the page of the server's own size,
\* whatever limit was asked for; an empty page; a page whose count is one more
\* than the documents it carries; a full page of documents that runs past
\* totalcount; and the page that starts one item after the offset asked for.
LoosePages(skip, limit) ==
    LET page == ServerPage(skip, limit)
        lim == Val(page.limit)
        lo == IF skip < 0 THEN 0 ELSE skip
    IN  {page,
         ServerPage(skip, NoneInt),
         [page EXCEPT !.count = Some(0), !.embedded = Collection(<<>>)],
         [page EXCEPT !.count = Some(Val(page.count) + 1)],
         [page EXCEPT !.count = Some(lim),
                      !.embedded = Collection([k \in 1..lim |->
                                                [id |-> ListingId(lo + k - 1)]])],
         ServerPage(lo + 1, limit)}

\* The page documents of a server that leaves members out: the whole page;
\* the page with some of its members only; and the page whose "_embedded"
\* object has no array for the collection.
PageKeys == {"skip", "limit", "count", "totalcount", "embedded"}
PartialKeys ==
    {PageKeys, PageKeys \ {"embedded"}, {"embedded"}, {"skip", "limit"},
     {"count", "totalcount", "embedded"}, {}}
PartialPages(skip, limit) ==
    LET page == ServerPage(skip, limit)
    IN  {[k \in K |-> page[k]] : K \in PartialKeys}
        \cup {[page EXCEPT !.embedded = EmptyObject]}

\* The answers the server may give to a range request: the page a server that
\* honours skip and limit returns and, from a faulty server, an error.
Responses(skip, limit) ==
    {[status |-> 200, json |-> j] :
        j \in (IF server = "loose" THEN LoosePages(skip, limit)
               ELSE IF server = "lenient" THEN PartialPages(skip, limit)
               ELSE {ServerPage(skip, limit)})}
    \cup (IF faulty THEN {[status |-> s, json |-> ErrorBody(s)] : s \in ErrorStatuses}
          ELSE {})

----------------------------------------------------------------------------
(* _ResourceList and Client._get_resources *)

\* _ResourceList.__init__: one entity per document, and the paging metadata.
\* json.get(key, None) for a key whose value is an int
JsonGetZero(json, key) == IF key \in DOMAIN json THEN json[key] ELSE Some(0)
JsonGet(json, key) == IF key \in DOMAIN json THEN json[key] ELSE NoneInt

\* json.get('_embedded', {}).get(type_._collection, [])
EmbeddedDocuments(json) ==
    LET e == IF "embedded" \in DOMAIN json THEN json["embedded"] ELSE EmptyObject
    IN  IF CollectionKey \in DOMAIN e THEN e[CollectionKey] ELSE <<>>

ResourceList(json) ==
    LET docs == EmbeddedDocuments(json)
    IN  [items |-> [k \in 1..Len(docs) |-> Entity(docs[k].id)],
         skip |-> JsonGet(json, "skip"), limit |-> JsonGet(json, "limit"),
         count |-> JsonGet(json, "count"),
         total_count |-> JsonGet(json, "totalcount")]

\* Client._get_resources(type_, skip, limit, None) with skip an integer: the
\* request is sent with the query {skip, limit}; _check_response raises on an
\* error status (error names the exception) and the JSON is wrapped otherwise.
GetResources(skip, limit) ==
    {IF CheckResponse(r.status) = "json"
     THEN [error |-> "", status |-> r.status, list |-> ResourceList(r.json),
           json |-> r.json]
     ELSE [error |-> CheckResponse(r.status), status |-> r.status, list |-> <<>>,
           json |-> r.json] :
        r \in Responses(skip, limit)}

----------------------------------------------------------------------------
(* _ResourceCollection *)

\* The collection object as a value.
Coll == [page_size |-> page_size, items |-> items, length |-> length]

NoResult == [kind |-> "none"]
PyNone == [kind |-> "None"]
IntResult(n) == [kind |-> "int", value |-> n]

NoCall == [op |-> "none", index |-> 0, fetches |-> <<>>, statuses |-> <<>>,
           outcome |-> "none", result |-> NoResult, again |-> FALSE,
           known |-> FALSE, sizeBefore |-> NoneInt, loadedBefore |-> ""]

\* _is_item_loaded: "loaded", "unloaded", or "IndexError" when the subscript
\* raises.
IsItemLoadedInverted(c, index) ==
    IF ~c.items.allocated THEN "unloaded"
    ELSE IF PyIndex(c.items.list, index) = 0 THEN "IndexError"
    ELSE IF c.items.list[PyIndex(c.items.list, index)] = UNKNOWN_ITEM THEN "loaded"
    ELSE "unloaded"
IsItemLoaded(c, index) ==
    IF ~c.items.allocated THEN "unloaded"
    ELSE IF PyIndex(c.items.list, index) = 0 THEN "IndexError"
    ELSE IF c.items.list[PyIndex(c.items.list, index)] # UNKNOWN_ITEM THEN "loaded"
    ELSE "unloaded"

\* (index // page_size) * page_size
PageOffsetUnscaled(index, size) == index \div size
PageOffsetNextPage(index, size) == ((index \div size) + 1) * size
PageOffset(index, size) == (index \div size) * size

\* _load, once _get_resources has returned the page `page`.
LoadPage(c, page) ==
    LET its == IF c.items.allocated THEN c.items.list
               ELSE Allocate(Val(page.total_count))
    IN  [page_size |-> page.limit,
         length |-> page.total_count,
         items |-> ItemsList(SliceAssign(its, Val(page.skip),
                                         Val(page.skip) + Val(page.count),
                                         page.items))]

Request(skip, limit) == [skip |-> skip, limit |-> limit]

\* _load(skip) given what _get_resources gave: it raises before anything is
\* assigned when the request failed, and loads the page otherwise.
LoadResetsFirst(c, p) ==
    IF p.error # "" THEN [c EXCEPT !.page_size = NoneInt, !.items = NoItems]
    ELSE LoadPage(c, p.list)
Load(c, p) == IF p.error # "" THEN c ELSE LoadPage(c, p.list)

\* __getitem__ from `result = self._items[index]` on, were it to load the
\* index's page once more when the slot is still unloaded.
SubscriptReloads(c, index, fetches, statuses) ==
    LET pos == PyIndex(c.items.list, index)
        r == [c |-> c, fetches |-> fetches, statuses |-> statuses,
              outcome |-> "IndexError", result |-> NoResult]
    IN  IF pos = 0 THEN r
        ELSE IF c.items.list[pos] = UNKNOWN_ITEM
        THEN [r EXCEPT !.outcome = "AssertionError",
                       !.fetches = Append(fetches,
                            Request(PageOffset(index, Val(c.page_size)), c.page_size)),
                       !.statuses = Append(statuses, 200)]
        ELSE [r EXCEPT !.outcome = "return", !.result = c.items.list[pos]]

\* __getitem__ from `result = self._items[index]` on: the subscript, the
\* assertion and the except clause.
Subscript(c, index, fetches, statuses) ==
    LET pos == PyIndex(c.items.list, index)
        r == [c |-> c, fetches |-> fetches, statuses |-> statuses,
              outcome |-> "IndexError", result |-> NoResult]
    IN  IF pos = 0 THEN r
        ELSE IF c.items.list[pos] = UNKNOWN_ITEM
        THEN [r EXCEPT !.outcome = "AssertionError"]
        ELSE [r EXCEPT !.outcome = "return", !.result = c.items.list[pos]]

\* An exception leaves __getitem__: IndexError from its except clause, or the
\* error of a failed request, which no clause catches.
Raised(c, fetches, statuses, error) ==
    [c |-> c, fetches |-> fetches, statuses |-> statuses, outcome |-> error,
     result |-> NoResult]

\* The collection after a __getitem__(index) that ended as `r` says.
EndGetItem(index, r) ==
    /\ page_size' = r.c.page_size
    /\ items' = r.c.items
    /\ length' = r.c.length
    /\ call' = [op |-> "getitem", index |-> index, fetches |-> r.fetches,
                statuses |-> r.statuses,
                outcome |-> r.outcome, result |-> r.result,
                again |-> index \in returned, known |-> length # NoneInt,
                sizeBefore |-> page_size,
                loadedBefore |-> IsItemLoaded(Coll, index)]
    /\ returned' = IF r.outcome = "return" THEN returned \cup {index} ELSE returned
    /\ UNCHANGED <<total, faulty, server, defaultLimit>>
    /\ UNCHANGED <<resVars, apiVars>>

\* _ResourceCollection.__getitem__(index)
GetItem(index) ==
    LET c0 == Coll
        l0 == IsItemLoaded(c0, index)
    IN  IF l0 = "IndexError"
        THEN EndGetItem(index, Raised(c0, <<>>, <<>>, "IndexError"))
        ELSE IF l0 = "loaded" THEN EndGetItem(index, Subscript(c0, index, <<>>, <<>>))
        ELSE \E p1 \in GetResources(0, c0.page_size) :
            LET first == c0.page_size = NoneInt
                c1 == IF first THEN Load(c0, p1) ELSE c0
                f1 == IF first THEN <<Request(0, c0.page_size)>> ELSE <<>>
                s1 == IF first THEN <<p1.status>> ELSE <<>>
            IN  IF first /\ p1.error # ""
                THEN EndGetItem(index, Raised(c1, f1, s1, p1.error))
                ELSE IF IsItemLoaded(c1, index) = "IndexError"
                THEN EndGetItem(index, Raised(c1, f1, s1, "IndexError"))
                ELSE IF IsItemLoaded(c1, index) = "loaded"
                THEN EndGetItem(index, Subscript(c1, index, f1, s1))
                ELSE LET off == PageOffset(index, Val(c1.page_size))
                         f2 == Append(f1, Request(off, c1.page_size))
                     IN  \E p2 \in GetResources(off, c1.page_size) :
                            IF p2.error # ""
                            THEN EndGetItem(index,
                                    Raised(Load(c1, p2), f2, Append(s1, p2.status),
                                           p2.error))
                            ELSE EndGetItem(index,
                                    Subscript(Load(c1, p2), index, f2,
                                              Append(s1, p2.status)))

\* _ResourceCollection.__len__(): loads the first page when the length is
\* unknown; the method has no return statement, so its value is None.
LenCall ==
    /\ IF length = NoneInt
       THEN \E p \in GetResources(0, page_size) :
              LET c1 == Load(Coll, p)
              IN  /\ page_size' = c1.page_size
                  /\ items' = c1.items
                  /\ length' = c1.length
                  /\ call' = [NoCall EXCEPT !.op = "len",
                                !.fetches = <<Request(0, page_size)>>,
                                !.statuses = <<p.status>>,
                                !.outcome = IF p.error # "" THEN p.error ELSE "return",
                                !.result = IF p.error # "" THEN NoResult ELSE PyNone,
                                !.sizeBefore = page_size]
       ELSE /\ UNCHANGED <<page_size, items, length>>
            /\ call' = [NoCall EXCEPT !.op = "len", !.outcome = "return",
                            !.result = PyNone, !.known = TRUE,
                            !.sizeBefore = page_size]
    /\ UNCHANGED <<total, faulty, server, defaultLimit, returned>>
    /\ UNCHANGED <<resVars, apiVars>>

\* The indices a caller subscripts the collection with.
Indices == (0 - MaxTotal - 1) .. (MaxTotal + 1)

\* _ResourceCollection.__init__ (reached from Client._get_resources with
\* neither skip nor limit): page_size is the caller's, or None.
InitCollection ==
    /\ total \in 0..MaxTotal
    /\ faulty = FALSE
    /\ server = "consistent"
    /\ defaultLimit \in 1..MaxPage
    /\ page_size \in {NoneInt} \cup {Some(n) : n \in 1..MaxPage}
    /\ items = NoItems
    /\ length = NoneInt
    /\ call = NoCall
    /\ returned = {}
    /\ client = None
    /\ props = NewProps
    /\ ecall = NoECall
    /\ api = NoApiCall
    /\ install = NoInstall

NextCollection ==
    \/ \E index \in Indices : GetItem(index)
    \/ LenCall

SpecCollection == InitCollection /\ [][NextCollection]_vars

\* The same collection, of more than one page, over a server that may fail
\* any request.
InitFaulty ==
    /\ total \in {MaxTotal - 1, MaxTotal}
    /\ faulty = TRUE
    /\ server = "consistent"
    /\ defaultLimit \in 1..MaxPage
    /\ page_size \in {NoneInt} \cup {Some(n) : n \in 1..MaxPage}
    /\ items = NoItems
    /\ length = NoneInt
    /\ call = NoCall
    /\ returned = {}
    /\ client = None
    /\ props = NewProps
    /\ ecall = NoECall
    /\ api = NoApiCall
    /\ install = NoInstall

SpecFaulty == InitFaulty /\ [][NextCollection]_vars

\* The same collection over a server whose pages need not be consistent.
InitLoose ==
    /\ total \in 1..MaxTotal
    /\ faulty = FALSE
    /\ server = "loose"
    /\ defaultLimit \in 1..MaxPage
    /\ page_size \in {NoneInt} \cup {Some(n) : n \in 1..MaxPage}
    /\ items = NoItems
    /\ length = NoneInt
    /\ call = NoCall
    /\ returned = {}
    /\ client = None
    /\ props = NewProps
    /\ ecall = NoECall
    /\ api = NoApiCall
    /\ install = NoInstall

\* The caller subscripts with indices from 0 on.
NextLoose ==
    \/ \E index \in 0..(MaxTotal - 1) : GetItem(index)
    \/ LenCall

SpecLoose == InitLoose /\ [][NextLoose]_vars

\* Between two calls, a resource is added to the remote collection.
RemoteChange ==
    /\ total < MaxTotal
    /\ total' = total + 1
    /\ UNCHANGED <<faulty, server, defaultLimit, page_size, items, length, call, returned>>
    /\ UNCHANGED <<resVars, apiVars>>

NextLive ==
    \/ NextCollection
    \/ RemoteChange

\* The collection over a remote collection that grows while it is in use.
SpecLive == InitCollection /\ [][NextLive]_vars

-----------------------------------------------------------------------------
(* Client.get_base_images, Client.get_models, Client.get_workflows *)

\* The keyword arguments the listing method passes on to _get_resources:
\* get_models always passes groupids=group_ids, the others pass none.
Kwargs(method, group_ids) ==
    IF method = "get_models" THEN [k \in {"groupids"} |-> group_ids] ELSE EmptyObject

\* The branch _get_resources takes.
GetResourcesBranch(skip, limit, size, kwargs) ==
    IF skip = NoneInt /\ limit = NoneInt /\ DOMAIN kwargs = {}
    THEN "_ResourceCollection"
    ELSE IF size # NoneInt THEN "ValueError"
    ELSE "_ResourceList"

\* The query of the single request: skip, limit and every keyword argument
\* that is not None.
Query(skip, limit, kwargs) ==
    LET sent == {k \in DOMAIN kwargs : kwargs[k] # None}
    IN  [k \in {"skip", "limit"} |-> IF k = "skip" THEN skip ELSE limit]
        @@ [k \in sent |-> kwargs[k]]

\* The offset the server lists from when the query has no skip.
ServerSkip(skip) == IF skip = NoneInt THEN 0 ELSE Val(skip)

ListingMethods == {"get_base_images", "get_models", "get_workflows"}

\* One of the three listing methods is called: _get_resources returns a new
\* paged collection, raises ValueError, or sends one request and wraps it.
ListResources(method, skip, limit, size, group_ids) ==
    LET kwargs == Kwargs(method, group_ids)
        branch == GetResourcesBranch(skip, limit, size, kwargs)
        made == [NoApiCall EXCEPT !.method = method, !.skip = skip, !.limit = limit,
                    !.page_size = size, !.group_ids = group_ids, !.outcome = branch]
    IN  /\ method = "get_models" \/ group_ids = None
        /\ IF branch = "_ResourceCollection"
           THEN /\ page_size' = size
                /\ items' = NoItems
                /\ length' = NoneInt
                /\ call' = NoCall
                /\ returned' = {}
                /\ api' = made
           ELSE IF branch = "ValueError"
           THEN /\ api' = made
                /\ UNCHANGED <<page_size, items, length, call, returned>>
           ELSE /\ \E p \in GetResources(ServerSkip(skip), limit) :
                    api' = [made EXCEPT !.query = Query(skip, limit, kwargs),
                                        !.json = p.json, !.list = p.list]
                /\ UNCHANGED <<page_size, items, length, call, returned>>
        /\ UNCHANGED <<total, faulty, server, defaultLimit, install>>
        /\ UNCHANGED resVars

\* The arguments a caller lists with.
SkipArgs == {NoneInt, Some(1)}
LimitArgs == {NoneInt, Some(2)}
SizeArgs == {NoneInt} \cup {Some(n) : n \in 1..MaxPage}
GroupIdArgs == {None, "g"}

InitClient ==
    /\ total \in 0..MaxTotal
    /\ faulty = FALSE
    /\ server \in {"consistent", "lenient"}
    /\ defaultLimit \in 1..MaxPage
    /\ page_size = NoneInt
    /\ items = NoItems
    /\ length = NoneInt
    /\ call = NoCall
    /\ returned = {}
    /\ client = None
    /\ props = NewProps
    /\ ecall = NoECall
    /\ api = NoApiCall
    /\ install = NoInstall

NextClient ==
    \E method \in ListingMethods, skip \in SkipArgs, limit \in LimitArgs,
       size \in SizeArgs, group_ids \in GroupIdArgs :
        ListResources(method, skip, limit, size, group_ids)

SpecClient == InitClient /\ [][NextClient]_vars

\* The directories install_model is given, the files below a directory (by
\* their path relative to it) and the other arguments.
DirPaths == {Path(FALSE, <<"model">>), Path(FALSE, <<".", "model">>),
             Path(TRUE, <<"srv", "model">>), Path(TRUE, <<"home", ".cache", "model">>)}
DirFiles == {<<"run.py">>, <<".env">>, <<"manifest.json">>, <<"lib", "util.py">>,
             <<".git", "config">>}
Manifests == {None, "m"}
PathKinds == {"dir", "zip", "tar", "other"}
OsNames == {"nt", "posix"}
UploadStatuses == {200, 400, 500}

InitInstall ==
    /\ total = 0
    /\ faulty = FALSE
    /\ server = "consistent"
    /\ defaultLimit = 1
    /\ page_size = NoneInt
    /\ items = NoItems
    /\ length = NoneInt
    /\ call = NoCall
    /\ returned = {}
    /\ client = None
    /\ props = NewProps
    /\ ecall = NoECall
    /\ api = NoApiCall
    /\ install \in {[NoInstall EXCEPT !.os_name = os_name, !.files = files] :
                        os_name \in OsNames, files \in SUBSET DirFiles}

NextInstall ==
    \E kind \in PathKinds, path \in DirPaths, manifest \in Manifests,
       include_hidden \in BOOLEAN, status \in UploadStatuses :
        InstallModel(kind, path, manifest, include_hidden, status)

SpecInstall == InitInstall /\ [][NextInstall]_vars

----------------------------------------------------------------------------
(* Claims about the paged collection, checked under SpecCollection *)

\* C1: against a consistent server, whatever calls came before, a
\* __getitem__(i) with 0 <= i < totalcount returns the entity whose id is that
\* of document i of the full listing.
C1_GetMatchesListing ==
    (call.op = "getitem" /\ 0 <= call.index /\ call.index < total)
        => (call.outcome = "return" /\ call.result = Entity(ListingId(call.index)))

\* An index beyond the first page is read, after other indices were read, at
\* the cost of its own page.
C1_Witness ==
    /\ call.op = "getitem" /\ call.outcome = "return"
    /\ call.index > 0 /\ call.index < total
    /\ returned \ {call.index} # {}
    /\ call.fetches # <<>>
    /\ call.fetches[Len(call.fetches)].skip > 0

C3_LengthReturnsTotal ==
    call.op = "len"
        => /\ call.result = IntResult(Val(length))
           /\ call.known => call.fetches = <<>>
           /\ ~call.known => (Len(call.fetches) = 1 /\ call.fetches[1].skip = 0)

C5_NegativeIndexRejected ==
    (call.op = "getitem" /\ call.index < 0)
        => /\ call.outcome = "IndexError"
           /\ \A k \in 1..Len(call.fetches) : call.fetches[k].skip >= 0

----------------------------------------------------------------------------
(* A resource: a fresh instance of the type, with no client and no data *)

InitResource ==
    /\ total = 0
    /\ faulty = FALSE
    /\ server = "consistent"
    /\ defaultLimit = 1
    /\ page_size = NoneInt
    /\ items = NoItems
    /\ length = NoneInt
    /\ call = NoCall
    /\ returned = {}
    /\ client = None
    /\ props = NewProps
    /\ ecall = NoECall
    /\ api = NoApiCall
    /\ install = NoInstall

NextResource ==
    \/ \E f \in Fields : GetProperty(f)
    \/ \E f \in Fields, value \in SetValues : SetProperty(f, value)
    \/ \E json \in ResourceDocuments : Update(json)
    \/ FetchResource
    \/ UploadResource
    \/ RunWorkflow
    \/ \E include_id \in BOOLEAN : Serialise(include_id)

SpecResource == InitResource /\ [][NextResource]_vars

----------------------------------------------------------------------------
(* Claims about resources and their properties, checked under SpecResource *)

\* C6: with the id known, a client attached and no property cached, the
\* first read of a property other than id makes exactly one fetch by id and
\* returns; a read made when properties are cached makes none.
C6_FirstReadFetchesOnce ==
    /\ (ecall.op = "get" /\ ecall.field # "id" /\ ecall.pre.idKnown
            /\ ecall.pre.attached /\ ~ecall.pre.cached)
        => (ecall.outcome = "return" /\ ecall.fetches = 1)
    /\ (ecall.op = "get" /\ ecall.pre.cached) => ecall.fetches = 0

\* C7: a read that directly follows resource.<f> = v on a writable property f
\* returns v, whether or not a remote value was ever applied.
C7_SetThenGet ==
    (ecall.op = "get" /\ ecall.prevSet # <<>> /\ ecall.prevSet[1] = ecall.field)
        => (ecall.outcome = "return" /\ ecall.result = ecall.prevSet[2])

\* C8: _update (called directly or by a fetch) changes no property's local
\* value, so a property that was set keeps reporting the value set, and it
\* returns the instance it was called on.
C8_UpdateKeepsLocal ==
    [][(ecall'.op \in {"update", "fetch"} /\ ecall'.outcome = "return")
        => /\ \A f \in Fields : props'[f].local = props[f].local
           /\ \A f \in Fields : props[f].local # UNKNOWN
                => LocalValue(f, props'[f]) = props[f].local
           /\ ecall'.result = Self]_vars

\* An update has delivered a remote value that differs from the value set.
C8_Witness ==
    /\ ecall.op = "update"
    /\ props["value"].local \notin {UNKNOWN, None}
    /\ props["value"].remote # UNKNOWN
    /\ props["value"].remote # props["value"].local

\* C9: assigning to a property that is not writable raises the not-writable
\* error (AttributeError) and changes no property's data.
C9_ReadOnlySetRejected ==
    [][(ecall'.op = "set" /\ ~Descriptor(ecall'.field).writable)
        => (ecall'.outcome = "AttributeError" /\ props' = props)]_vars

C9_Witness ==
    /\ ecall.op = "set" /\ ecall.field = "name" /\ ecall.outcome = "AttributeError"
    /\ props["name"].remote # UNKNOWN
    /\ props["value"].local # UNKNOWN

\* C10: _serialise(include_id=False) has no "id" key; _serialise(include_id=True)
\* on a resource whose id is known maps "id" to that id.
C10_SerialisedId ==
    ecall.op = "serialise"
        => /\ ~ecall.include_id => Descriptor("id").json_name \notin DOMAIN ecall.wire
           /\ (ecall.include_id /\ LocalValue("id", props["id"]) # None)
                => /\ Descriptor("id").json_name \in DOMAIN ecall.wire
                   /\ ecall.wire[Descriptor("id").json_name] = LocalValue("id", props["id"])

\* The id is known and left out.
C10_Witness ==
    /\ ecall.op = "serialise" /\ ~ecall.include_id
    /\ LocalValue("id", props["id"]) # None
    /\ DOMAIN ecall.wire # {}

-----------------------------------------------------------------------------
\* Claims about a failing server, checked under SpecFaulty.

\* The exceptions _check_response raises.
FetchErrors == {"RequestError", "ServerError"}

\* C11 as stated: when a fetch fails during get(i) or length(), the backing
\* array, totalLength and pageSize are exactly what they were before the call.
C11_FailedCallLeavesState ==
    [][(call'.op \in {"getitem", "len"} /\ call'.outcome \in FetchErrors)
        => UNCHANGED <<page_size, items, length>>]_vars

\* C11 amended: a failed fetch leaves the backing array, totalLength and
\* pageSize as they were before that fetch. A call that made one fetch leaves
\* them as they were before the call; a get(i) that learned the page size from
\* a first fetch and whose aligned fetch failed leaves them as the first page's
\* load made them.
C11_FailedFetchLeavesState ==
    [][(call'.op \in {"getitem", "len"} /\ call'.outcome \in FetchErrors)
        => IF Len(call'.fetches) = 1
           THEN UNCHANGED <<page_size, items, length>>
           ELSE \E p \in GetResources(0, NoneInt) :
                   /\ p.error = ""
                   /\ page_size' = LoadPage(Coll, p.list).page_size
                   /\ items' = LoadPage(Coll, p.list).items
                   /\ length' = LoadPage(Coll, p.list).length]_vars

\* A get(i) whose second fetch failed has ended, with the first page kept.
C11_Witness ==
    /\ call.op = "getitem"
    /\ call.outcome \in FetchErrors
    /\ Len(call.fetches) = 2
    /\ items # NoItems

-----------------------------------------------------------------------------
\* Claims about errors, uploads and field reads, checked under SpecResource.

-----------------------------------------------------------------------------
\* Claims about the Client's listing methods, checked under SpecClient.

\* C14: a listing method called with neither skip nor limit (get_models with
\* group_ids left at None) returns the paged collection, whose page size is
\* the page_size argument.
C14_NoRangeGivesCollection ==
    (api.method \in ListingMethods /\ api.skip = NoneInt /\ api.limit = NoneInt
        /\ api.group_ids = None)
        => /\ api.outcome = "_ResourceCollection"
           /\ page_size = api.page_size

\* C15: uploading an entity whose id is unknown sends one POST to the type's
\* path with a payload that has no id key; uploading one whose id is known
\* sends one PUT addressed by the id with the id in the payload; the answer is
\* applied to the entity passed in, which is what the call returns.
C15_UploadCreatesOrUpdates ==
    ecall.op = "upload" =>
        /\ Len(ecall.requests) = 1
        /\ LET r == ecall.requests[1]
           IN  IF ecall.value = None
               THEN r.method = "POST" /\ r.path = <<>> /\ "id" \notin DOMAIN r.json
               ELSE /\ r.method = "PUT"
                    /\ r.path = <<ecall.value>>
                    /\ "id" \in DOMAIN r.json
                    /\ r.json["id"] = ecall.value
        /\ ecall.outcome = "return" =>
            /\ ecall.result = Self
            /\ client = TheClient
            /\ \A f \in {"id", "name", "value"} :
                Descriptor(f).json_name \in DOMAIN ecall.body.top
                    => props[f].remote = ecall.body.top[Descriptor(f).json_name]

\* An entity with a known id has been uploaded, and one without an id has
\* been created and has taken the id the server gave it.
C15_Witness ==
    /\ ecall.op = "upload"
    /\ ecall.outcome = "return"
    /\ ecall.value = None
    /\ ecall.requests[1].method = "POST"
    /\ props["id"].remote \in ExistingIds

\* C16: reading the id of an entity never fetches, whether or not the id is
\* known and whether or not a client is attached; it returns the local value,
\* else the remote value, else the default, and changes nothing.
C16_IdReadNeverFetches ==
    [][(ecall'.op = "get" /\ ecall'.field = "id")
        => /\ ecall'.outcome = "return"
           /\ ecall'.fetches = 0
           /\ ecall'.result = (IF props["id"].local # UNKNOWN THEN props["id"].local
                               ELSE IF props["id"].remote # UNKNOWN
                               THEN props["id"].remote
                               ELSE Descriptor("id").default)
           /\ UNCHANGED <<client, props>>]_vars

\* The id was read while it was unknown and a client was attached.
C16_Witness ==
    /\ ecall.op = "get"
    /\ ecall.field = "id"
    /\ ecall.pre.needs
    /\ ecall.pre.attached
    /\ ecall.outcome = "return"
    /\ ecall.result = None

\* C17: a read of a field other than the id whose remote value is unknown,
\* made while the id is unknown or no client is attached, makes no fetch and
\* returns the field's local value, else the descriptor's default.
C17_NoFetchWithoutIdOrClient ==
    (/\ ecall.op = "get"
     /\ ecall.field \in Fields \ {"id"}
     /\ ecall.pre.needs
     /\ ~ecall.pre.idKnown \/ ~ecall.pre.attached)
        => /\ ecall.outcome = "return"
           /\ ecall.fetches = 0
           /\ ecall.result = LocalValue(ecall.field, props[ecall.field])

-----------------------------------------------------------------------------
\* Claims about a remote collection that changes, checked under SpecLive.

\* C18: once totalLength is known it keeps its value, whatever totalcount
\* later pages report.
C18_LengthNeverChanges ==
    [][length # NoneInt => length' = length]_vars

\* C19: run_workflow on a Workflow whose id is known and which the server has
\* makes exactly one results request and returns its results; when the id is
\* unknown, or the results request is answered 404, the workflow is created
\* and a results request for the new id follows, whose results are returned.
C19_RunCreatesWhenMissing ==
    ecall.op = "run" =>
        /\ (ecall.value # None /\ ecall.http = Some(200))
            => /\ Len(ecall.requests) = 1
               /\ ecall.requests[1].method = "GET"
               /\ ecall.requests[1].path = <<ecall.value, "results">>
               /\ ecall.outcome = "return"
        /\ (ecall.value = None \/ ecall.http = Some(404))
            => /\ ecall.outcome = "return"
               /\ Len(ecall.requests) >= 2
               /\ ecall.requests[Len(ecall.requests) - 1].method = "POST"
               /\ ecall.requests[Len(ecall.requests)].method = "GET"

-----------------------------------------------------------------------------
\* Claims about the requests of a get(i), checked under SpecCollection.

\* C20: with the page size known and index i not loaded, get(i) makes exactly
\* one range request, at offset floor(i / pageSize) * pageSize with limit
\* pageSize; with the page size unknown it first makes one request at offset
\* 0 and makes the aligned request only if i is still not loaded.
C20_AlignedFetch ==
    call.op = "getitem" =>
        /\ (call.sizeBefore # NoneInt /\ call.loadedBefore = "unloaded")
            => call.fetches =
                <<[skip |-> (call.index \div Val(call.sizeBefore)) * Val(call.sizeBefore),
                   limit |-> call.sizeBefore]>>
        /\ call.sizeBefore = NoneInt
            => /\ Len(call.fetches) \in {1, 2}
               /\ call.fetches[1] = [skip |-> 0, limit |-> NoneInt]
               /\ Len(call.fetches) = 2
                    => /\ call.fetches[2] =
                            [skip |-> (call.index \div Val(page_size)) * Val(page_size),
                             limit |-> page_size]
                       /\ ~(0 <= call.index /\ call.index < Val(page_size)
                                /\ call.index < total)
               /\ (Len(call.fetches) = 1 /\ call.outcome = "return")
                    => 0 <= PyIndex(items.list, call.index) - 1
                       /\ PyIndex(items.list, call.index) - 1 < Val(page_size)

\* The page size was known, index 3 of 4 was not loaded, and get(3) made the
\* one request for the page of size 2 that holds it.
C20_Witness ==
    /\ call.op = "getitem"
    /\ call.index = 3
    /\ call.sizeBefore = Some(2)
    /\ call.loadedBefore = "unloaded"
    /\ call.known
    /\ call.fetches = <<Request(2, Some(2))>>
    /\ call.outcome = "return"

-----------------------------------------------------------------------------
\* Claims about pages that disagree with the request, checked under SpecLoose.

\* C21: the page size, once known (given at construction or learned from the
\* first page), keeps its value in every later state and is the limit of
\* every later range request, whatever limit later pages report.
C21_PageSizeNeverChanges ==
    [][page_size # NoneInt
        => /\ page_size' = page_size
           /\ \A k \in 1..Len(call'.fetches) : call'.fetches[k].limit = page_size]_vars

-----------------------------------------------------------------------------
\* Further claims about the collection over a consistent server, checked
\* under SpecCollection.

\* C22: no offset is requested twice; in particular a get or length call
\* requests no offset that the call before it requested, so get(i) followed
\* by get(j) for i and j in one page costs one fetch of that page.
C22_NoOffsetTwice ==
    [][call'.op \in {"getitem", "len"}
        => \A k \in 1..Len(call'.fetches), j \in 1..Len(call.fetches) :
                call'.fetches[k].skip # call.fetches[j].skip]_vars

-----------------------------------------------------------------------------
\* Further claims about pages that disagree with the request, checked under
\* SpecLoose.

\* C23: whenever the backing list is allocated its length is totalLength;
\* splicing a page in never lengthens or shortens it, also when the page's
\* count differs from the items it carries or skip + count exceeds the length.
C23_BackingLengthIsTotal ==
    items.allocated => Len(items.list) = Val(length)

\* C24: when the page fetched for an in-range index comes back without that
\* index (count 0, say), get(i) fails with the protocol error: it does not
\* return the unloaded placeholder and does not raise the index error.
C24_UncoveredIndexIsProtocolError ==
    (/\ call.op = "getitem"
     /\ 0 <= call.index /\ call.index < total
     /\ call.fetches # <<>>
     /\ call.outcome # "return")
        => call.outcome = "ProtocolError"

-----------------------------------------------------------------------------
\* Claims about applying and serialising documents, checked under
\* SpecResource.

\* The object a property's key is looked up in when `body` is applied: the
\* document itself, or its "_embedded" object for an embedded property.
UpdateSource(f, body) ==
    IF Descriptor(f).kind # "_EmbeddedProperty" THEN body.top
    ELSE IF body.embedded.present THEN body.embedded.doc
    ELSE EmptyObject

\* C25: applying a document that lacks a property's key leaves the property's
\* remote value exactly as it was, known or unknown; applying one that has
\* the key makes the remote value the decoded value of that key.
C25_AbsentKeyKeepsRemote ==
    [][(ecall'.op \in {"update", "fetch", "upload"} /\ ecall'.outcome = "return")
        => \A f \in Fields :
            IF Descriptor(f).json_name \in DOMAIN UpdateSource(f, ecall'.body)
            THEN props'[f].remote =
                    FromJson(f, UpdateSource(f, ecall'.body)[Descriptor(f).json_name])
            ELSE props'[f].remote = props[f].remote]_vars

\* A document without the name key was applied to a resource whose name was
\* known from an earlier document, and the name is still known.
C25_Witness ==
    /\ ecall.op = "update"
    /\ "name" \notin DOMAIN ecall.body.top
    /\ "value" \in DOMAIN ecall.body.top
    /\ props["name"].remote = "a"
    /\ props["ports"].remote = "[Port(q)]"
    /\ ~ecall.body.embedded.present

\* C26: serialising writes a property's key if and only if the property's
\* value is not unknown: a property never set and never received is absent
\* from the document, every other one is present with its encoded value.
C26_UnknownIsNotWritten ==
    ecall.op = "serialise" =>
        \A f \in Fields :
            (ecall.include_id \/ Descriptor(f).kind # "_IdProperty")
                => IF props[f].local = UNKNOWN /\ props[f].remote = UNKNOWN
                   THEN Descriptor(f).json_name \notin DOMAIN ecall.wire
                   ELSE /\ Descriptor(f).json_name \in DOMAIN ecall.wire
                        /\ ecall.wire[Descriptor(f).json_name]
                            = ToJson(f, LocalValue(f, props[f]))

\* C27: an embedded property is read from and written to the document's
\* "_embedded" object, never its top level: serialising writes no top-level
\* key for it, and applying the serialised document to a fresh resource
\* restores the property's value.
C27_EmbeddedRoundTrip ==
    (ecall.op = "serialise" /\ props["ports"].remote # UNKNOWN)
        => /\ Descriptor("ports").json_name \notin DOMAIN ecall.wire
           /\ LocalValue("ports",
                         PropertyUpdate("ports", NewData,
                                        [top |-> ecall.wire, embedded |-> NoEmbedded]))
                = LocalValue("ports", props["ports"])

-----------------------------------------------------------------------------
\* Claims about the single page of a listing call, checked under SpecClient.

\* C28: building the list from a page document that lacks the "_embedded"
\* object or the collection's array does not fail and gives a list of no
\* items; skip, limit, count and total_count are the document's skip, limit,
\* count and totalcount members where present and None otherwise.
C28_LenientPage ==
    api.outcome = "_ResourceList" =>
        /\ ("embedded" \notin DOMAIN api.json
                \/ CollectionKey \notin DOMAIN api.json["embedded"])
            => api.list.items = <<>>
        /\ \A m \in {<<"skip", "skip">>, <<"limit", "limit">>, <<"count", "count">>,
                     <<"total_count", "totalcount">>} :
            api.list[m[1]] = (IF m[2] \in DOMAIN api.json THEN api.json[m[2]]
                              ELSE NoneInt)

\* A list was built from a document that has only skip and limit.
C28_Witness ==
    /\ api.outcome = "_ResourceList"
    /\ DOMAIN api.json = {"skip", "limit"}
    /\ api.list.items = <<>>
    /\ api.list.skip = Some(1)
    /\ api.list.limit = Some(2)
    /\ api.list.count = NoneInt
    /\ api.list.total_count = NoneInt


\* C29: the count of every list a listing call gives is the number of items
\* the list holds.
C29_CountIsNumberOfItems ==
    api.outcome = "_ResourceList" => api.list.count = Some(Len(api.list.items))


\* C30: _update and _serialise make no request and never go through the
\* fetching read of a property, whatever the resource holds, also when a
\* client is attached, the id is known and no other property has a remote
\* value; a fetch by id makes its one request and its _update adds none.
C30_UpdateAndSerialiseNeverFetch ==
    /\ ecall.op \in {"update", "serialise"}
        => (ecall.outcome = "return" /\ ecall.fetches = 0)
    /\ ecall.op = "fetch" => ecall.fetches = 1

\* _serialise returned on a resource with a client attached, a known id and
\* no remote value for any other property.
C30_Witness ==
    /\ ecall.op = "serialise"
    /\ ecall.outcome = "return"
    /\ client = TheClient
    /\ LocalValue("id", props["id"]) # None
    /\ \A f \in Fields \ {"id"} : NeedsFetch(props[f])

-----------------------------------------------------------------------------
\* Claims about install_model, checked under SpecInstall.

\* C31: given a directory and include_hidden false, the archive holds every
\* file of the directory none of whose components below the directory starts
\* with a dot, and no other file of it, however the directory's own path is
\* written; with a manifest supplied it holds exactly one manifest.json, the
\* supplied one.
C31_ArchiveHoldsTheVisibleFiles ==
    (install.kind = "dir" /\ ~install.include_hidden) =>
        /\ \A rel \in install.files :
            (\E e \in install.archive : e.content = <<"file", rel>> /\ e.arcname = rel)
                <=> /\ \A k \in 1..Len(rel) : ~StartsWithDot(rel[k])
                    /\ (install.manifest = None \/ rel # ManifestName)
        /\ install.manifest # None =>
            {e \in install.archive : e.arcname = ManifestName}
                = {[arcname |-> ManifestName, content |-> <<"json", install.manifest>>]}


-----------------------------------------------------------------------------
\* Claims about the requests of one call, checked under SpecLoose.

\* C32: whatever pages the server answers with, one __getitem__ call ends
\* having sent at most two range requests and one __len__ call at most one.
C32_BoundedFetches ==
    /\ call.op = "getitem" => Len(call.fetches) <= 2
    /\ call.op = "len" => Len(call.fetches) <= 1

\* A __getitem__ that sent two requests and still found its slot unloaded.
C32_Witness ==
    /\ call.op = "getitem"
    /\ Len(call.fetches) = 2
    /\ call.outcome = "AssertionError"


\* C33: a slot of the backing list that holds an entity holds that entity
\* after every step: no load makes it unloaded again, puts another entity in
\* it or moves its entity to another index.
C33_LoadedSlotKeepsEntity ==
    [][items.allocated
        => \A i \in 1..Len(items.list) :
            items.list[i] # UNKNOWN_ITEM
                => (i <= Len(items'.list) /\ items'.list[i] = items.list[i])]_vars

====
